---- MODULE Spec2Model ----
(***************************************************************************)
(* Model of src/app.py: the POST /api/ handler process_questions and the   *)
(* JSON recovery function extract_json_from_text.                          *)
(*                                                                         *)
(* A text is a sequence of one-character strings wherever the code looks   *)
(* at characters (the request text, the model's reply); fixed literals of  *)
(* the code that nothing inspects are single tokens of such a sequence.    *)
(* Indices of the Python operators (find, slices) are 0-based as in the    *)
(* source; -1 is find's "not found".                                       *)
(***************************************************************************)
EXTENDS Integers, Sequences, FiniteSets, TLC

(***************************************************************************)
(* Python string primitives                                                *)
(***************************************************************************)

\* The whitespace characters of the model's alphabet (str.strip, \s, JSON whitespace).
Whitespace == {" ", "\n"}

\* text[start:end] for 0 <= start, end (Python clamps end to len and yields "" when start >= end).
Slice(text, start, end) ==
  LET e == IF end > Len(text) THEN Len(text) ELSE end
  IN IF start >= e THEN << >> ELSE SubSeq(text, start + 1, e)

\* text.startswith(pat, i): pat occurs in text at 0-based index i.
MatchAt(text, pat, i) ==
  /\ i + Len(pat) <= Len(text)
  /\ \A k \in 1..Len(pat) : text[i + k] = pat[k]

\* text.find(pat, start): the least 0-based index >= start where pat occurs, or -1.
Find(text, pat, start) ==
  LET hits == {i \in start..(Len(text) - Len(pat)) : MatchAt(text, pat, i)}
  IN IF hits = {} THEN -1 ELSE CHOOSE i \in hits : \A j \in hits : i <= j

\* pat in text
Contains(text, pat) == Find(text, pat, 0) # -1

\* text.strip(): leading and trailing whitespace removed.
Strip(text) ==
  LET keep == {i \in 1..Len(text) : text[i] \notin Whitespace}
  IN IF keep = {} THEN << >>
     ELSE SubSeq(text, CHOOSE i \in keep : \A j \in keep : i <= j,
                       CHOOSE i \in keep : \A j \in keep : i >= j)

\* The ASCII letters the model's texts use in both cases (str.lower maps the first to the second).
UpperToLower ==
  [c \in {"S", "C", "R", "A", "P", "E", "W"} |->
     CASE c = "S" -> "s" [] c = "C" -> "c" [] c = "R" -> "r" [] c = "A" -> "a"
       [] c = "P" -> "p" [] c = "E" -> "e" [] c = "W" -> "w"]

\* text.lower()
Lower(text) ==
  [i \in 1..Len(text) |->
     IF text[i] \in DOMAIN UpperToLower THEN UpperToLower[text[i]] ELSE text[i]]

(***************************************************************************)
(* json.loads: a recursive-descent parser of the JSON grammar over the     *)
(* model's alphabet (arrays, objects, strings without escapes, unsigned    *)
(* integers, true, false, null).  A parsed value is represented by its     *)
(* text with the insignificant whitespace removed, so that two texts       *)
(* parse to equal values exactly when they differ in whitespace only.      *)
(* Positions are 1-based indices into the text.                            *)
(***************************************************************************)

Digits == {"0", "1", "2", "3", "4", "5", "6", "7", "8", "9"}

NoParse == [ok |-> FALSE, pos |-> 0, val |-> << >>]

RECURSIVE SkipWs(_, _)
\* The first position >= i that holds no JSON whitespace.
SkipWs(t, i) ==
  IF i <= Len(t) /\ t[i] \in Whitespace THEN SkipWs(t, i + 1) ELSE i

RECURSIVE DigitsEnd(_, _)
\* The first position >= i that holds no digit.
DigitsEnd(t, i) ==
  IF i <= Len(t) /\ t[i] \in Digits THEN DigitsEnd(t, i + 1) ELSE i

\* A string starting with the quote at position i: up to the next quote, no control character inside.
ParseString(t, i) ==
  LET close == Find(t, <<"\"">>, i)   \* 0-based index of the closing quote = position - 1
  IN IF close = -1 THEN NoParse
     ELSE IF \E k \in (i + 1)..close : t[k] = "\n" THEN NoParse
     ELSE [ok |-> TRUE, pos |-> close + 2, val |-> SubSeq(t, i, close + 1)]

\* A number starting at the digit at position i: 0, or a digit run without a leading zero.
ParseNumber(t, i) ==
  IF t[i] = "0" THEN [ok |-> TRUE, pos |-> i + 1, val |-> <<"0">>]
  ELSE LET e == DigitsEnd(t, i)
       IN [ok |-> TRUE, pos |-> e, val |-> SubSeq(t, i, e - 1)]

\* One of the literals true, false, null at position i.
ParseLiteral(t, i) ==
  LET lits == {<<"t", "r", "u", "e">>, <<"f", "a", "l", "s", "e">>, <<"n", "u", "l", "l">>}
      hit == {l \in lits : MatchAt(t, l, i - 1)}
  IN IF hit = {} THEN NoParse
     ELSE LET l == CHOOSE l \in hit : TRUE
          IN [ok |-> TRUE, pos |-> i + Len(l), val |-> l]

RECURSIVE ParseValue(_, _)
RECURSIVE ParseElems(_, _, _)
RECURSIVE ParseMembers(_, _, _)

\* The value that starts at position i (no leading whitespace).
ParseValue(t, i) ==
  IF i > Len(t) THEN NoParse
  ELSE IF t[i] = "[" THEN
    LET j == SkipWs(t, i + 1)
    IN IF j <= Len(t) /\ t[j] = "]"
       THEN [ok |-> TRUE, pos |-> j + 1, val |-> <<"[", "]">>]
       ELSE ParseElems(t, j, <<"[">>)
  ELSE IF t[i] = "{" THEN
    LET j == SkipWs(t, i + 1)
    IN IF j <= Len(t) /\ t[j] = "}"
       THEN [ok |-> TRUE, pos |-> j + 1, val |-> <<"{", "}">>]
       ELSE ParseMembers(t, j, <<"{">>)
  ELSE IF t[i] = "\"" THEN ParseString(t, i)
  ELSE IF t[i] \in Digits THEN ParseNumber(t, i)
  ELSE ParseLiteral(t, i)

\* The elements of an array from position i on, acc being the array's text so far.
ParseElems(t, i, acc) ==
  LET v == ParseValue(t, i)
  IN IF ~v.ok THEN NoParse
     ELSE LET j == SkipWs(t, v.pos)
          IN IF j > Len(t) THEN NoParse
             ELSE IF t[j] = "]"
               THEN [ok |-> TRUE, pos |-> j + 1, val |-> acc \o v.val \o <<"]">>]
             ELSE IF t[j] = ","
               THEN ParseElems(t, SkipWs(t, j + 1), acc \o v.val \o <<",">>)
             ELSE NoParse

\* The members of an object from position i on, acc being the object's text so far.
ParseMembers(t, i, acc) ==
  IF i > Len(t) \/ t[i] # "\"" THEN NoParse
  ELSE
    LET k == ParseString(t, i)
    IN IF ~k.ok THEN NoParse
       ELSE
         LET c == SkipWs(t, k.pos)
         IN IF c > Len(t) \/ t[c] # ":" THEN NoParse
            ELSE
              LET v == ParseValue(t, SkipWs(t, c + 1))
              IN IF ~v.ok THEN NoParse
                 ELSE
                   LET j == SkipWs(t, v.pos)
                       sofar == acc \o k.val \o <<":">> \o v.val
                   IN IF j > Len(t) THEN NoParse
                      ELSE IF t[j] = "}"
                        THEN [ok |-> TRUE, pos |-> j + 1, val |-> sofar \o <<"}">>]
                      ELSE IF t[j] = ","
                        THEN ParseMembers(t, SkipWs(t, j + 1), sofar \o <<",">>)
                      ELSE NoParse

\* json.loads(text): ok with the value, or not ok (json.JSONDecodeError).
json_loads(text) ==
  LET v == ParseValue(text, SkipWs(text, 1))
  IN IF v.ok /\ SkipWs(text, v.pos) = Len(text) + 1
     THEN [ok |-> TRUE, val |-> v.val]
     ELSE [ok |-> FALSE, val |-> << >>]

(***************************************************************************)
(* extract_json_from_text, tier by tier                                    *)
(***************************************************************************)

\* The backtick character (a TLA+ string cannot hold one: this token stands for it).
BT == "backtick"

\* The fence marker: three backticks.
Fence == <<BT, BT, BT>>

\* The fence marker followed by json.
FenceJson == Fence \o <<"j", "s", "o", "n">>

\* The contents of the branch taken on a fence marker: text[start:end].strip() when a
\* closing fence follows start, the text unchanged otherwise.
BetweenFences(text, start) ==
  LET end == Find(text, Fence, start)
  IN IF end # -1 THEN Strip(Slice(text, start, end)) ELSE text

\* cleaned_text after "Remove markdown code blocks".
StripFences(text) ==
  IF Contains(text, FenceJson)
    THEN BetweenFences(text, Find(text, FenceJson, 0) + 7)
  ELSE IF Contains(text, Fence)
    THEN BetweenFences(text, Find(text, Fence, 0) + 3)
  ELSE text

RECURSIVE ScanBalanced(_, _, _, _, _)
\* The counting loop from 0-based index i on with the count so far: the index just
\* past the closer that brings the count back to 0, or -1 when the text ends first.
ScanBalanced(text, i, count, opener, closer) ==
  IF i >= Len(text) THEN -1
  ELSE IF text[i + 1] = opener
    THEN ScanBalanced(text, i + 1, count + 1, opener, closer)
  ELSE IF text[i + 1] = closer
    THEN IF count - 1 = 0 THEN i + 1
         ELSE ScanBalanced(text, i + 1, count - 1, opener, closer)
  ELSE ScanBalanced(text, i + 1, count, opener, closer)

\* json_candidate of one substring tier: found is FALSE when the tier has nothing to parse
\* (no opener, or no closer brings the count back to 0).
Candidate(text, opener, closer) ==
  LET start == Find(text, <<opener>>, 0)
      end == IF start = -1 THEN -1 ELSE ScanBalanced(text, start, 0, opener, closer)
  IN IF end = -1 THEN [found |-> FALSE, text |-> << >>]
     ELSE [found |-> TRUE, text |-> Slice(text, start, end)]

\* "Look for JSON arrays first"
ArrayCandidate(text) == Candidate(text, "[", "]")

\* "Try JSON objects"
ObjectCandidate(text) == Candidate(text, "{", "}")

(***************************************************************************)
(* The scrape: trigger, URL, table extraction, serialisation               *)
(***************************************************************************)

\* if "wikipedia.org" in questions_text or "scrape" in questions_text.lower()
ScrapeTriggered(text) ==
  \/ Contains(text, <<"w", "i", "k", "i", "p", "e", "d", "i", "a", ".", "o", "r", "g">>)
  \/ Contains(Lower(text), <<"s", "c", "r", "a", "p", "e">>)

RECURSIVE NonSpaceEnd(_, _)
\* The first 0-based index >= i that holds whitespace, or len(text).
NonSpaceEnd(text, i) ==
  IF i < Len(text) /\ text[i + 1] \notin Whitespace THEN NonSpaceEnd(text, i + 1) ELSE i

\* re.search of the URL pattern (http or https, ://, one or more non-space characters):
\* found with the leftmost match, or not found.
UrlSearch(text) ==
  LET http == <<"h", "t", "t", "p", ":", "/", "/">>
      https == <<"h", "t", "t", "p", "s", ":", "/", "/">>
      \* the index just past the scheme when one starts at i and a non-space follows, else -1
      After(i) ==
        LET a == IF MatchAt(text, https, i) THEN i + 8
                 ELSE IF MatchAt(text, http, i) THEN i + 7 ELSE -1
        IN IF a # -1 /\ a < Len(text) /\ text[a + 1] \notin Whitespace THEN a ELSE -1
      hits == {i \in 0..(Len(text) - 1) : After(i) # -1}
  IN IF hits = {} THEN [found |-> FALSE, url |-> << >>]
     ELSE LET i == CHOOSE i \in hits : \A j \in hits : i <= j
          IN [found |-> TRUE, url |-> Slice(text, i, NonSpaceEnd(text, After(i)))]

\* soup.find('table', {'class': 'wikitable'}): the first table whose classes include wikitable.
FindWikitable(page) ==
  LET hits == {i \in 1..Len(page) : "wikitable" \in page[i].classes}
  IN IF hits = {} THEN [found |-> FALSE, rows |-> << >>]
     ELSE [found |-> TRUE, rows |-> page[CHOOSE i \in hits : \A j \in hits : i <= j].rows]

\* [cell.get_text().strip() for cell in row.find_all(['td', 'th'])]
CellTexts(row) == [i \in 1..Len(row) |-> Strip(row[i])]

\* headers: the cell texts of table.find('tr'), empty when the table has no row.
TableHeaders(rows) == IF rows = << >> THEN << >> ELSE CellTexts(rows[1])

\* rows: the cell texts of table.find_all('tr')[1:], rows without cells skipped.
DataRows(rows) ==
  SelectSeq([i \in 1..(Len(rows) - 1) |-> CellTexts(rows[i + 1])],
            LAMBDA cols : cols # << >>)

RECURSIVE Join(_, _)
\* sep.join(items)
Join(items, sep) ==
  IF items = << >> THEN << >>
  ELSE IF Len(items) = 1 THEN items[1]
  ELSE items[1] \o <<sep>> \o Join(Tail(items), sep)

\* The row cap of "for row in rows[:100]".
RowCap == 100

\* The excerpt cap of generated_text[:500].
ExcerptCap == 500

RECURSIVE RowLines(_, _, _)
\* The lines of rows lo to hi: each row comma-joined and newline-ended (the loop's
\* appends, computed by halves).
RowLines(rows, lo, hi) ==
  IF lo > hi THEN << >>
  ELSE IF lo = hi THEN Join(rows[lo], ",") \o <<"\n">>
  ELSE LET mid == (lo + hi) \div 2
       IN RowLines(rows, lo, mid) \o RowLines(rows, mid + 1, hi)

\* CappedRows without the cap: every row is kept.
CappedRows_Uncapped(rows) == rows

\* rows[:100]
CappedRows(rows) == Slice(rows, 0, RowCap)

\* scraped_data for a parsed page: the table as CSV-like text, or "" (no table, no header, no row).
FormatScraped(url, page) ==
  LET table == FindWikitable(page)
      headers == TableHeaders(table.rows)
      rows == DataRows(table.rows)
  IN IF table.found /\ headers # << >> /\ rows # << >>
     THEN <<"Scraped Data from ">> \o url \o <<":", "\n">>
          \o Join(headers, ",") \o <<"\n">>
          \o RowLines(CappedRows(rows), 1, Len(CappedRows(rows)))
     ELSE << >>

\* scraped_data after "except Exception as e".
ScrapeError(message) == <<"Error scraping data: ", message>>

(***************************************************************************)
(* The inputs: requests, fetch outcomes, model replies                     *)
(***************************************************************************)

\* The longest request text, in fragments.
MaxFrags == 2

\* The deepest nesting of the generated arrays.
MaxDepth == 2

\* How many data rows past the row cap the largest fetched table has.
MaxOver == 1

\* How many characters past the excerpt cap the longest reply has.
MaxExcess == 1

\* The fragments a request text is made of: trigger words in both cases, URLs, a scheme
\* that no URL follows.
Fragments ==
  { <<"s", "c", "r", "a", "p", "e", " ">>, <<"S", "C", "R", "A", "P", "E", " ">>, <<"W", "i", "k", "i", "p", "e", "d", "i", "a", ".", "o", "r", "g", " ">>, <<"h", "t", "t", "p", ":", "/", "/", "a", " ">>,
    <<"h", "t", "t", "p", "s", ":", "/", "/", "w", "i", "k", "i", "p", "e", "d", "i", "a", ".", "o", "r", "g", "/", "b">>, <<"h", "t", "t", "p", ":", "/", "/", " ">> }

RECURSIVE TextsOf(_)
\* The concatenations of at most n fragments.
TextsOf(n) ==
  IF n = 0 THEN {<< >>}
  ELSE LET shorter == TextsOf(n - 1)
       IN shorter \cup {t \o f : t \in shorter, f \in Fragments}

QuestionTexts == TextsOf(MaxFrags)

\* The questions.txt part: decodable with its text, bytes that are no UTF-8, or absent.
QuestionUploads ==
  {[present |-> TRUE, ok |-> TRUE, text |-> t] : t \in QuestionTexts}
    \cup {[present |-> TRUE, ok |-> FALSE, text |-> << >>],
          [present |-> FALSE, ok |-> FALSE, text |-> << >>]}

\* The image.png part: absent, or a file with its name whose read succeeds or fails.
ImageUploads ==
  {[present |-> FALSE, filename |-> << >>, readable |-> TRUE]}
    \cup {[present |-> TRUE, filename |-> <<"image.png">>, readable |-> r] : r \in BOOLEAN}

\* The data.csv part: absent, or a file whose bytes decode to its text or do not decode.
CsvUploads ==
  {[present |-> FALSE, ok |-> TRUE, text |-> << >>],
   [present |-> TRUE, ok |-> TRUE, text |-> <<"a", ",", "b", "\n", "1", ",", "2">>],
   [present |-> TRUE, ok |-> FALSE, text |-> << >>]}

Requests ==
  [api_key : BOOLEAN, questions : QuestionUploads, image : ImageUploads, csv : CsvUploads]

\* A table of the fetched page: its class attribute and its rows, a row being its cells' texts.
Table(classes, rows) == [classes |-> classes, rows |-> rows]

\* A table of n + 1 rows after its header, the second of them without cells.
BigTable(n) ==
  Table({"wikitable"},
        <<<<<<" ", "N", " ">>>>>> \o
        [i \in 1..(n + 1) |->
           IF i = 2 THEN << >> ELSE <<<<" ", ToString(i)>>>>])

Pages ==
  { << >>,
    <<Table({"infobox"}, <<<<<<"h">>>>, <<<<"1">>>>>>)>>,
    <<Table({"infobox"}, <<<<<<"h">>>>, <<<<"1">>>>>>),
      Table({"wikitable", "sortable"},
            <<<<<<" ", "A", " ">>, <<"B">>>>, <<<<"1">>, <<" ", "2">>>>, << >>, <<<<"3", "\n">>, <<"4">>>>>>)>>,
    <<Table({"wikitable"}, <<<<<<"A">>, <<"B">>>>>>)>>,
    <<Table({"wikitable"}, << >>)>>,
    <<Table({"wikitable"}, <<<< >>, <<<<"1">>>>>>)>> }
    \cup {<<BigTable(n)>> : n \in RowCap..(RowCap + MaxOver)}

\* What requests.get, raise_for_status and the page's parsing can do: raise, or yield the page.
WebOutcomes ==
  {[kind |-> k, message |-> k, page |-> << >>] :
     k \in {"ConnectionError", "Timeout", "HTTPError", "ParserError"}}
    \cup {[kind |-> "ok", message |-> "", page |-> p] : p \in Pages}

\* The state of the fetch before any was made.
NoFetch == [kind |-> "none", message |-> "", page |-> << >>]

RECURSIVE Nested(_)
\* The array of depth d around 1.
Nested(d) == IF d = 0 THEN <<"1">> ELSE <<"[">> \o Nested(d - 1) \o <<"]">>

\* JSON arrays and objects, as the texts a model writes them.
Structures ==
  {Nested(d) : d \in 1..MaxDepth}
    \cup { <<"{", "\"", "a", "\"", ":", "1", "}">>, <<"{", "\"", "a", "\"", ":", " ", "[", "1", "]", "}">>, <<"[", "1", ",", " ", "2", "]">>, <<"[", "\"", "]", "\"", "]">>, <<"{", "\"", "a", "\"", ":", "\"", "}", "\"", "}">>,
           <<"[", "\"", BT, BT, BT, "\"", "]">>, <<"[", "\"", BT, BT, BT, "[", "2", "]", BT, BT, BT, "\"", "]">> }

\* JSON scalars.
Scalars == { <<"7">>, <<"\"", "x", "\"">>, <<"t", "r", "u", "e">>, <<"n", "u", "l", "l">>, <<"\"", BT, BT, BT, "a", BT, BT, BT, "\"">> }

JsonTexts == Structures \cup Scalars

\* Prose before and after a value, with and without bracket characters.
ProseBefore == { << >>, <<"x", " ">>, <<"[", " ">>, <<"]", " ">>, <<"{", " ">>, <<"[", "0", "]", " ">> }
ProseAfter == { << >>, <<" ", "y">>, <<" ", "]">>, <<" ", "}">>, <<" ", "[", "2", "]">>, <<" ", "{">> }

\* Language tags of a fenced block.
Tags == { <<"j", "s", "o", "n">>, << >>, <<"p", "y">> }

\* value in a fenced block: the opening fence, the tag, a newline, the value, a newline, the closing fence.
Fenced(tag, value) == Fence \o tag \o <<"\n">> \o value \o <<"\n">> \o Fence

\* A reply of the model: its text, and how the text was built (the value in it, the prose
\* around it, the tag of its fence).
Reply(kind, shape, text, value, before, after, tag) ==
  [kind |-> kind, shape |-> shape, text |-> text, value |-> value,
   before |-> before, after |-> after, tag |-> tag]

\* generate_content raising, and a reply without text.
NoText == {Reply(k, "none", << >>, << >>, << >>, << >>, << >>) : k \in {"error", "empty"}}

\* The state of the reply before the model was called.
NoReply == Reply("none", "none", << >>, << >>, << >>, << >>, << >>)

BareReplies ==
  {Reply("text", "bare", v, v, << >>, << >>, << >>) : v \in JsonTexts}
    \cup {Reply("text", "bare", <<" ">> \o v \o <<"\n">>, v, <<" ">>, <<"\n">>, << >>) :
            v \in JsonTexts}

ProseReplies ==
  {Reply("text", "prose", b \o v \o a, v, b, a, << >>) :
     b \in ProseBefore, a \in ProseAfter, v \in Structures} \ BareReplies

FencedReplies ==
  {Reply("text", "fenced", Fenced(t, v), v, << >>, << >>, t) : t \in Tags, v \in JsonTexts}
    \cup {Reply("text", "fenced", <<"x", " ">> \o Fenced(t, v) \o <<" ", "y">>, v, <<"x", " ">>, <<" ", "y">>, t) :
            t \in Tags, v \in JsonTexts}

\* A text of n characters that holds no JSON.
LongGarbage(n) == [i \in 1..n |-> "x"]

GarbageReplies ==
  {Reply("text", "garbage", LongGarbage(n), << >>, << >>, << >>, << >>) :
     n \in (ExcerptCap - 1)..(ExcerptCap + MaxExcess)}
  \cup
  {Reply("text", "garbage", g, << >>, << >>, << >>, << >>) :
     g \in { <<"o", "o", "p", "s">>, <<" ", "o", "o", "p", "s">>, <<" ">>, <<"[", "1">>, <<"{", "\"", "a", "\"", "}">>, <<"]", " ", "[">> }}

\* The replies the recovery is checked on.
RecoveryReplies == NoText \cup BareReplies \cup ProseReplies \cup FencedReplies \cup GarbageReplies

\* The replies the whole request is checked on.
PipelineReplies ==
  NoText \cup
  { Reply("text", "bare", <<"{", "\"", "a", "\"", ":", " ", "4", "}">>, <<"{", "\"", "a", "\"", ":", " ", "4", "}">>, << >>, << >>, << >>),
    Reply("text", "fenced", Fenced(<<"j", "s", "o", "n">>, <<"[", "1", ",", "2", ",", "3", "]">>), <<"[", "1", ",", "2", ",", "3", "]">>, << >>, << >>, <<"j", "s", "o", "n">>),
    Reply("text", "prose", <<"x", " ", "{", "\"", "x", "\"", ":", " ", "1", "}", " ", "y">>, <<"{", "\"", "x", "\"", ":", " ", "1", "}">>, <<"x", " ">>, <<" ", "y">>, << >>),
    Reply("text", "garbage", <<" ", "o", "o", "p", "s">>, << >>, << >>, << >>, << >>) }

(***************************************************************************)
(* The handler's state                                                     *)
(***************************************************************************)

VARIABLES
  request,         \* the environment and the three upload slots of the call
  pc,              \* the handler's position
  uploads_read,    \* the upload slots read so far
  questions_text,  \* questions_text
  fetches,         \* the URLs requests.get was called with, in order
  web,             \* what the fetch did
  scraped_data,    \* scraped_data
  prompt_parts,    \* prompt_parts
  model_calls,     \* the prompts generate_content was called with, in order
  response,        \* the model's reply
  generated_text,  \* generated_text
  cleaned_text,    \* cleaned_text of extract_json_from_text
  tier,            \* the statement that produced the returned value
  json_response,   \* the value returned by the recovery
  status,          \* the response's status, 0 while there is none
  body             \* the response's body

vars ==
  <<request, pc, uploads_read, questions_text, fetches, web, scraped_data, prompt_parts,
    model_calls, response, generated_text, cleaned_text, tier, json_response, status, body>>

\* A response body: an HTTPException's detail, a recovered JSON value, or the failure object.
Body(kind, detail, value, raw_response, response_length) ==
  [kind |-> kind, detail |-> detail, value |-> value,
   raw_response |-> raw_response, response_length |-> response_length]

NoBody == Body("none", "", << >>, << >>, 0)

\* raise HTTPException(status_code=code, detail=detail)
Raise(code, detail) ==
  /\ pc' = "done"
  /\ status' = code
  /\ body' = Body("detail", detail, << >>, << >>, 0)

\* The handler's state on entry, for a request.
Entry(req) ==
  /\ request = req
  /\ pc = "form"
  /\ uploads_read = {}
  /\ questions_text = << >>
  /\ fetches = << >>
  /\ web = NoFetch
  /\ scraped_data = << >>
  /\ prompt_parts = << >>
  /\ model_calls = << >>
  /\ response = NoReply
  /\ generated_text = << >>
  /\ cleaned_text = << >>
  /\ tier = "none"
  /\ json_response = << >>
  /\ status = 0
  /\ body = NoBody

Init == \E req \in Requests : Entry(req)

(***************************************************************************)
(* process_questions, step by step                                         *)
(***************************************************************************)

\* The form's validation before the handler's body runs: questions.txt, declared without a
\* default, is required, and a request without it is answered 422 by the framework.
ValidateForm ==
  /\ pc = "form"
  /\ IF request.questions.present
       THEN /\ pc' = "api_key"
            /\ UNCHANGED <<status, body>>
       ELSE Raise(422, "Field required")
  /\ UNCHANGED <<request, uploads_read, questions_text, fetches, web, scraped_data,
                 prompt_parts, model_calls, response, generated_text, cleaned_text,
                 tier, json_response>>

\* api_key = os.getenv(...); if not api_key: raise HTTPException(500)
CheckApiKey ==
  /\ pc = "api_key"
  /\ IF request.api_key
       THEN /\ pc' = "questions"
            /\ UNCHANGED <<status, body>>
       ELSE Raise(500, "GEMINI_API_KEY environment variable not set")
  /\ UNCHANGED <<request, uploads_read, questions_text, fetches, web, scraped_data,
                 prompt_parts, model_calls, response, generated_text, cleaned_text,
                 tier, json_response>>

\* content = await questions_txt.read(); questions_text = content.decode('utf-8')
ReadQuestions ==
  /\ pc = "questions"
  /\ uploads_read' = uploads_read \cup {"questions.txt"}
  /\ IF request.questions.ok
       THEN /\ questions_text' = request.questions.text
            /\ pc' = "scrape"
            /\ UNCHANGED <<status, body>>
       ELSE /\ Raise(400, "Error reading questions.txt")
            /\ UNCHANGED questions_text
  /\ UNCHANGED <<request, fetches, web, scraped_data, prompt_parts, model_calls, response,
                 generated_text, cleaned_text, tier, json_response>>

\* ScrapeWanted without the test of url_match: the trigger alone starts the fetch.
ScrapeWanted_NoUrlCheck == ScrapeTriggered(questions_text)

\* The scrape is wanted: the trigger matches and the text holds a URL.
ScrapeWanted == ScrapeTriggered(questions_text) /\ UrlSearch(questions_text).found

\* scraped_data = "" and no fetch: the trigger does not match, or url_match is None.
SkipScrape ==
  /\ pc = "scrape"
  /\ ~ScrapeWanted
  /\ scraped_data' = << >>
  /\ pc' = "image"
  /\ UNCHANGED <<request, uploads_read, questions_text, fetches, web, prompt_parts,
                 model_calls, response, generated_text, cleaned_text, tier, json_response,
                 status, body>>

\* scraped_data after the try block, for what the fetch did.
ScrapedData(url, outcome) ==
  IF outcome.kind = "ok" THEN FormatScraped(url, outcome.page)
  ELSE ScrapeError(outcome.message)

\* Scrape without the except clause's recovery: a failed fetch ends the request with status 500.
Scrape_Aborts ==
  /\ pc = "scrape"
  /\ ScrapeWanted
  /\ \E outcome \in WebOutcomes :
       LET url == UrlSearch(questions_text).url
       IN /\ fetches' = Append(fetches, url)
          /\ web' = outcome
          /\ IF outcome.kind = "ok"
               THEN /\ scraped_data' = ScrapedData(url, outcome)
                    /\ pc' = "image"
                    /\ UNCHANGED <<status, body>>
               ELSE /\ Raise(500, "Error scraping data")
                    /\ UNCHANGED scraped_data
  /\ UNCHANGED <<request, uploads_read, questions_text, prompt_parts, model_calls, response,
                 generated_text, cleaned_text, tier, json_response>>

\* The try block of the scrape: one requests.get of the first URL, then the table or the error text.
Scrape ==
  /\ pc = "scrape"
  /\ ScrapeWanted
  /\ \E outcome \in WebOutcomes :
       LET url == UrlSearch(questions_text).url
       IN /\ fetches' = Append(fetches, url)
          /\ web' = outcome
          /\ scraped_data' = ScrapedData(url, outcome)
  /\ pc' = "image"
  /\ UNCHANGED <<request, uploads_read, questions_text, prompt_parts, model_calls, response,
                 generated_text, cleaned_text, tier, json_response, status, body>>

\* prompt_parts after "if scraped_data: prompt_parts.append(...)".
FirstParts ==
  <<<<"Questions: ">> \o questions_text>>
    \o (IF scraped_data # << >> THEN <<<<"Scraped Data: ">> \o scraped_data>> ELSE << >>)

\* prompt_parts = [...]; the scraped part; if image_png: read it and append its note.
ReadImage ==
  /\ pc = "image"
  /\ IF ~request.image.present
       THEN /\ prompt_parts' = FirstParts
            /\ pc' = "csv"
            /\ UNCHANGED <<uploads_read, status, body>>
       ELSE /\ uploads_read' = uploads_read \cup {"image.png"}
            /\ IF request.image.readable
                 THEN /\ prompt_parts' =
                           Append(FirstParts, <<"Image file provided: ">> \o request.image.filename)
                      /\ pc' = "csv"
                      /\ UNCHANGED <<status, body>>
                 ELSE /\ Raise(400, "Error reading image.png")
                      /\ prompt_parts' = FirstParts
  /\ UNCHANGED <<request, questions_text, fetches, web, scraped_data, model_calls, response,
                 generated_text, cleaned_text, tier, json_response>>

\* if data_csv: read it, decode it and append its text.
ReadCsv ==
  /\ pc = "csv"
  /\ IF ~request.csv.present
       THEN /\ pc' = "model"
            /\ UNCHANGED <<uploads_read, prompt_parts, status, body>>
       ELSE /\ uploads_read' = uploads_read \cup {"data.csv"}
            /\ IF request.csv.ok
                 THEN /\ prompt_parts' = Append(prompt_parts, <<"CSV Data: ">> \o request.csv.text)
                      /\ pc' = "model"
                      /\ UNCHANGED <<status, body>>
                 ELSE /\ Raise(400, "Error reading data.csv")
                      /\ UNCHANGED prompt_parts
  /\ UNCHANGED <<request, questions_text, fetches, web, scraped_data, model_calls, response,
                 generated_text, cleaned_text, tier, json_response>>

\* The instruction block of full_prompt, up to "Request to process:" and its newline.
Instructions == <<"You are a data analyst ... Request to process:\n">>

\* FullPrompt without the [1:]: the first part, the request text again, is joined too.
FullPrompt_AllParts(text, parts) ==
  Instructions \o text \o <<"\n", "\n">> \o Join(parts, "\n")

\* full_prompt: the instructions, the request text, an empty line, the parts after the first
\* joined by newlines.
FullPrompt(text, parts) ==
  Instructions \o text \o <<"\n", "\n">> \o Join(Tail(parts), "\n")

\* model.generate_content(full_prompt, ...); no text is an error; generated_text = response.text.strip()
InvokeModel(replies) ==
  /\ pc = "model"
  /\ model_calls' = Append(model_calls, FullPrompt(questions_text, prompt_parts))
  /\ \E reply \in replies :
       /\ response' = reply
       /\ IF reply.kind = "text" /\ reply.text # << >>
            THEN /\ generated_text' = Strip(reply.text)
                 /\ pc' = "fence"
                 /\ UNCHANGED <<status, body>>
            ELSE /\ Raise(500, "Error calling Gemini API")
                 /\ UNCHANGED generated_text
  /\ UNCHANGED <<request, uploads_read, questions_text, fetches, web, scraped_data,
                 prompt_parts, cleaned_text, tier, json_response>>

(***************************************************************************)
(* extract_json_from_text(generated_text), step by step                    *)
(***************************************************************************)

\* "Remove markdown code blocks"
StripFence ==
  /\ pc = "fence"
  /\ cleaned_text' = StripFences(generated_text)
  /\ pc' = "direct"
  /\ UNCHANGED <<request, uploads_read, questions_text, fetches, web, scraped_data,
                 prompt_parts, model_calls, response, generated_text, tier, json_response,
                 status, body>>

\* One tier: return the parsed text when there is one and it parses, go on otherwise.
Tier(here, found, text, next) ==
  /\ pc = here
  /\ IF found /\ json_loads(text).ok
       THEN /\ json_response' = json_loads(text).val
            /\ tier' = here
            /\ pc' = "return"
       ELSE /\ pc' = next
            /\ UNCHANGED <<json_response, tier>>
  /\ UNCHANGED <<request, uploads_read, questions_text, fetches, web, scraped_data,
                 prompt_parts, model_calls, response, generated_text, cleaned_text,
                 status, body>>

\* "Try parsing the cleaned text first"
DirectParse == Tier("direct", TRUE, cleaned_text, "array")

\* ArrayExtract on the object tier's candidate (the two substring tiers swapped).
ArrayExtract_ObjectFirst ==
  Tier("array", ObjectCandidate(cleaned_text).found, ObjectCandidate(cleaned_text).text, "object")

\* "Look for JSON arrays first"
ArrayExtract ==
  Tier("array", ArrayCandidate(cleaned_text).found, ArrayCandidate(cleaned_text).text, "object")

\* "Try JSON objects"; raise ValueError when this tier fails too.
ObjectExtract ==
  Tier("object", ObjectCandidate(cleaned_text).found, ObjectCandidate(cleaned_text).text,
       "raise")

\* return json_response
Return ==
  /\ pc = "return"
  /\ pc' = "done"
  /\ status' = 200
  /\ body' = Body("value", "", json_response, << >>, 0)
  /\ UNCHANGED <<request, uploads_read, questions_text, fetches, web, scraped_data,
                 prompt_parts, model_calls, response, generated_text, cleaned_text,
                 tier, json_response>>

\* Fallback without the [:500]: the failure object carries the whole text.
Fallback_Uncapped ==
  /\ pc = "raise"
  /\ pc' = "done"
  /\ status' = 200
  /\ LET direct == json_loads(Strip(generated_text))
     IN IF direct.ok
          THEN /\ json_response' = direct.val
               /\ tier' = "fallback"
               /\ body' = Body("value", "", direct.val, << >>, 0)
          ELSE /\ body' = Body("failure", "Could not extract valid JSON from response", << >>,
                               generated_text, Len(generated_text))
               /\ UNCHANGED <<json_response, tier>>
  /\ UNCHANGED <<request, uploads_read, questions_text, fetches, web, scraped_data,
                 prompt_parts, model_calls, response, generated_text, cleaned_text>>

\* Fallback raising instead of answering: a reply that nothing parses ends with status 500.
Fallback_ErrorStatus ==
  /\ pc = "raise"
  /\ LET direct == json_loads(Strip(generated_text))
     IN IF direct.ok
          THEN /\ json_response' = direct.val
               /\ tier' = "fallback"
               /\ pc' = "done"
               /\ status' = 200
               /\ body' = Body("value", "", direct.val, << >>, 0)
          ELSE /\ Raise(500, "Could not parse JSON")
               /\ UNCHANGED <<json_response, tier>>
  /\ UNCHANGED <<request, uploads_read, questions_text, fetches, web, scraped_data,
                 prompt_parts, model_calls, response, generated_text, cleaned_text>>

\* except ValueError: json.loads(generated_text.strip()), or the failure object.
Fallback ==
  /\ pc = "raise"
  /\ pc' = "done"
  /\ status' = 200
  /\ LET direct == json_loads(Strip(generated_text))
     IN IF direct.ok
          THEN /\ json_response' = direct.val
               /\ tier' = "fallback"
               /\ body' = Body("value", "", direct.val, << >>, 0)
          ELSE /\ body' = Body("failure", "Could not extract valid JSON from response", << >>,
                               Slice(generated_text, 0, ExcerptCap), Len(generated_text))
               /\ UNCHANGED <<json_response, tier>>
  /\ UNCHANGED <<request, uploads_read, questions_text, fetches, web, scraped_data,
                 prompt_parts, model_calls, response, generated_text, cleaned_text>>

\* The recovery of one reply, from the call of the model to the response.
Recover(replies) ==
  \/ InvokeModel(replies)
  \/ StripFence
  \/ DirectParse
  \/ ArrayExtract
  \/ ObjectExtract
  \/ Return
  \/ Fallback

Next ==
  \/ ValidateForm
  \/ CheckApiKey
  \/ ReadQuestions
  \/ SkipScrape
  \/ Scrape
  \/ ReadImage
  \/ ReadCsv
  \/ Recover(PipelineReplies)

Spec == Init /\ [][Next]_vars

\* The handler about to call the model, for a request of no trigger, no image and no CSV.
InitRecover ==
  /\ request = [api_key |-> TRUE,
                questions |-> [present |-> TRUE, ok |-> TRUE, text |-> << >>],
                image |-> [present |-> FALSE, filename |-> << >>, readable |-> TRUE],
                csv |-> [present |-> FALSE, ok |-> TRUE, text |-> << >>]]
  /\ pc = "model"
  /\ uploads_read = {"questions.txt"}
  /\ questions_text = << >>
  /\ fetches = << >>
  /\ web = NoFetch
  /\ scraped_data = << >>
  /\ prompt_parts = <<<<"Questions: ">>>>
  /\ model_calls = << >>
  /\ response = NoReply
  /\ generated_text = << >>
  /\ cleaned_text = << >>
  /\ tier = "none"
  /\ json_response = << >>
  /\ status = 0
  /\ body = NoBody

NextRecover == Recover(RecoveryReplies)

\* The recovery alone, on every reply of RecoveryReplies.
SpecRecover == InitRecover /\ [][NextRecover]_vars

(***************************************************************************)
(* Claims                                                                  *)
(***************************************************************************)

\* p is a prefix of t.
IsPrefix(p, t) == Len(p) <= Len(t) /\ \A i \in 1..Len(p) : p[i] = t[i]

Min(a, b) == IF a <= b THEN a ELSE b

Brackets == {"[", "]", "{", "}"}

\* The text holds a bracket character.
HasBracket(text) == \E i \in 1..Len(text) : text[i] \in Brackets

\* extract_json_from_text has finished: it returned (pc = "return") or raised ValueError (pc = "raise").
Extracted == pc \in {"return", "raise"}

\* extract_json_from_text returned the value that the text v parses to.
Returned(v) == pc = "return" /\ json_response = json_loads(v).val

\* C1: a JSON array or object V between prose that holds bracket characters, the text
\* holding no fence and not parsing as a whole: extract_json_from_text returns exactly V.
C1_ProseExtractsExactly ==
  ( /\ Extracted
    /\ response.shape = "prose"
    /\ HasBracket(response.before \o response.after)
    /\ ~Contains(response.text, Fence)
    /\ ~json_loads(response.text).ok )
  => Returned(response.value)

\* C2: a JSON value V in a fenced block with any language tag (nothing around the
\* block): extract_json_from_text returns V.
C2_FencedReturnsValue ==
  ( /\ Extracted
    /\ response.shape = "fenced"
    /\ response.before = << >>
    /\ response.after = << >> )
  => Returned(response.value)

\* C3: a reply that is valid JSON as it stands (at most whitespace around it): the value
\* answered is the one the reply parses to, whether extract_json_from_text returned it or
\* the handler's own json.loads did after a ValueError.
C3_BareRoundTrip ==
  (pc = "done" /\ response.shape = "bare")
  => (body.kind = "value" /\ body.value = json_loads(response.text).val)

\* The substring tiers' candidates parse.
ArrayParses ==
  ArrayCandidate(cleaned_text).found /\ json_loads(ArrayCandidate(cleaned_text).text).ok
ObjectParses ==
  ObjectCandidate(cleaned_text).found /\ json_loads(ObjectCandidate(cleaned_text).text).ok

\* One step of the recovery keeps the tiers' order: fences are stripped first; a tier is
\* entered only from the tier before it, and only when that tier did not parse; a value is
\* returned only by the tier in turn, and it is what that tier's text parses to.
TierStep ==
  /\ (pc = "fence" => pc' = "direct" /\ cleaned_text' = StripFences(generated_text))
  /\ (pc' = "direct" => pc = "fence")
  /\ (pc' = "array" => pc = "direct" /\ ~json_loads(cleaned_text).ok)
  /\ (pc' = "object" => pc = "array" /\ ~json_loads(cleaned_text).ok /\ ~ArrayParses)
  /\ (pc' = "raise" =>
        pc = "object" /\ ~json_loads(cleaned_text).ok /\ ~ArrayParses /\ ~ObjectParses)
  /\ (pc' = "return" =>
        \/ /\ pc = "direct"
           /\ json_loads(cleaned_text).ok
           /\ json_response' = json_loads(cleaned_text).val
        \/ /\ pc = "array"
           /\ ArrayParses
           /\ json_response' = json_loads(ArrayCandidate(cleaned_text).text).val
        \/ /\ pc = "object"
           /\ ObjectParses
           /\ json_response' = json_loads(ObjectCandidate(cleaned_text).text).val)
  /\ (pc \in {"direct", "array", "object"} => cleaned_text' = cleaned_text)

\* C4: the tiers run in one order for every reply (fence stripping, direct parse, array,
\* object, failure), a later tier only after every earlier one failed, and the value
\* returned is that of the first tier that parses.
C4_TierOrder == [][TierStep]_vars

\* C4's case: the array tier returned although the object tier's candidate parses too.
C4_Witness ==
  /\ pc = "done"
  /\ tier = "array"
  /\ ObjectParses
  /\ body.value = json_loads(ArrayCandidate(cleaned_text).text).val

\* The model gave a non-empty text and no tier of extract_json_from_text parsed anything.
NoTierParsed ==
  /\ pc = "done"
  /\ response.kind = "text"
  /\ response.text # << >>
  /\ tier \notin {"direct", "array", "object"}

ErrorIsOfLaterStep ==
  (pc = "done" /\ status # 200) =>
    body.detail \in {"Error reading image.png", "Error reading data.csv",
                     "Error calling Gemini API"}

\* The fetch or the page's parsing raised.
ScrapeFailed == web.kind \in {"ConnectionError", "Timeout", "HTTPError", "ParserError"}

\* The uploads after questions.txt can be read and decoded.
UploadsOk ==
  /\ request.image.present => request.image.readable
  /\ request.csv.present => request.csv.ok

\* C6: a failed scrape does not end the request: scraped_data is the error text, a request
\* that ends with an error status ends so for another reason, the model is called with a
\* prompt that holds the error text, and the response is the one the model's reply gives.
C6_ScrapeFailureSoft ==
  ScrapeFailed =>
    /\ scraped_data = <<"Error scraping data: ", web.message>>
    /\ pc # "scrape"
    /\ ErrorIsOfLaterStep
    /\ (UploadsOk /\ pc \notin {"image", "csv", "model"}) =>
         /\ Len(model_calls) = 1
         /\ Contains(model_calls[1], <<"Scraped Data: ">> \o scraped_data)
    /\ (pc = "done" /\ response.kind = "text" /\ response.text # << >>) => status = 200
    /\ (pc = "done" /\ response.text = <<"{", "\"", "a", "\"", ":", " ", "4", "}">>) =>
         (body.kind = "value" /\ body.value = <<"{", "\"", "a", "\"", ":", "4", "}">>)

\* C6's case: the fetch failed and the request was answered from the model's reply.
C6_Witness ==
  /\ web.kind = "ConnectionError"
  /\ pc = "done"
  /\ status = 200
  /\ response.text = <<"{", "\"", "a", "\"", ":", " ", "4", "}">>
  /\ body.value = <<"{", "\"", "a", "\"", ":", "4", "}">>

\* The causes of an error status that the claim names, with what it says of each.
NamedErrorCause ==
  \/ /\ request.questions.present /\ ~request.api_key
     /\ status = 500
     /\ uploads_read = {} /\ fetches = << >> /\ model_calls = << >>
  \/ /\ ~request.questions.present \/ request.api_key
     /\ ~request.questions.ok \/ (request.csv.present /\ ~request.csv.ok)
     /\ status \in 400..499
     /\ model_calls = << >>
  \/ /\ response.kind \in {"error", "empty"}
     /\ status = 500

ImageReadFailed ==
  /\ request.questions.present /\ request.api_key /\ request.questions.ok
  /\ request.image.present /\ ~request.image.readable
  /\ status = 400
  /\ model_calls = << >>

ScrapedBlock == IF scraped_data # << >> THEN <<<<"Scraped Data: ">> \o scraped_data>> ELSE << >>
CsvBlock ==
  IF request.csv.present THEN <<<<"CSV Data: ">> \o request.csv.text>> ELSE << >>
ImageBlock ==
  IF request.image.present
    THEN <<<<"Image file provided: ">> \o request.image.filename>> ELSE << >>

\* The prompt made of the instructions, the request text and the blocks in the order given.
PromptOf(blocks) ==
  Instructions \o request.questions.text \o <<"\n", "\n">> \o Join(blocks, "\n")

\* C8 as claimed: the prompt is the instructions, the request text, the scraped block, the
\* CSV block, the image note, in this order.
C8_Original ==
  model_calls # << >> => model_calls[1] = PromptOf(ScrapedBlock \o CsvBlock \o ImageBlock)

\* C8 as amended: the prompt is the instructions, the request text, the scraped block, the
\* image note, the CSV block, in this order: the image note precedes the CSV block.
C8_PromptOrder ==
  model_calls # << >> => model_calls[1] = PromptOf(ScrapedBlock \o ImageBlock \o CsvBlock)

\* C8's case: a prompt with all three blocks.
C8_Witness ==
  /\ model_calls # << >>
  /\ scraped_data # << >>
  /\ request.csv.present
  /\ request.image.present

\* The text holds pat at some index, letters compared without case.
HoldsIgnoringCase(text, pat) == \E i \in 0..Len(text) : MatchAt(Lower(text), pat, i)

\* The trigger of the scrape, on the request text as uploaded.
Trigger ==
  \/ \E i \in 0..Len(request.questions.text) :
       MatchAt(request.questions.text, <<"w", "i", "k", "i", "p", "e", "d", "i", "a", ".", "o", "r", "g">>, i)
  \/ HoldsIgnoringCase(request.questions.text, <<"s", "c", "r", "a", "p", "e">>)

\* u is a URL of the text at index i: http:// or https://, then one or more characters that
\* are no whitespace, up to the next whitespace or the text's end.
UrlAt(text, u, i) ==
  /\ u = Slice(text, i, i + Len(u))
  /\ i + Len(u) <= Len(text)
  /\ \/ MatchAt(u, <<"h", "t", "t", "p", "s", ":", "/", "/">>, 0) /\ Len(u) > 8
     \/ MatchAt(u, <<"h", "t", "t", "p", ":", "/", "/">>, 0) /\ Len(u) > 7
  /\ \A k \in 1..Len(u) : u[k] \notin Whitespace
  /\ i + Len(u) < Len(text) => text[i + Len(u) + 1] \in Whitespace

\* A URL of the text starts at index i: the scheme and one character that is no whitespace.
UrlStartsAt(text, i) ==
  \/ /\ MatchAt(text, <<"h", "t", "t", "p", "s", ":", "/", "/">>, i)
     /\ i + 8 < Len(text) /\ text[i + 9] \notin Whitespace
  \/ /\ MatchAt(text, <<"h", "t", "t", "p", ":", "/", "/">>, i)
     /\ i + 7 < Len(text) /\ text[i + 8] \notin Whitespace

\* The text holds a URL.
HasUrl(text) == \E i \in 0..Len(text) : UrlStartsAt(text, i)

\* u is the first URL of the text.
FirstUrl(text, u) ==
  \E i \in 0..Len(text) :
    /\ UrlAt(text, u, i)
    /\ \A j \in 0..(i - 1) : ~UrlStartsAt(text, j)

\* C9: a fetch is made only for a request text that matches the trigger and holds a URL,
\* at most one per request and of the text's first URL; a text that matches the trigger
\* and holds no URL goes on without fetch, without error and with empty scraped data.
C9_FetchOnlyOnTriggerAndUrl ==
  /\ Len(fetches) <= 1
  /\ fetches # << >> =>
       /\ Trigger
       /\ FirstUrl(request.questions.text, fetches[1])
  /\ ( /\ request.questions.present /\ request.api_key /\ request.questions.ok
       /\ Trigger /\ ~HasUrl(request.questions.text)
       /\ pc \notin {"form", "api_key", "questions", "scrape"} ) =>
       /\ fetches = << >>
       /\ web = NoFetch
       /\ scraped_data = << >>
       /\ ErrorIsOfLaterStep

\* C9's case: a request whose text matches the trigger and holds no URL, answered without a fetch.
C9_Witness ==
  /\ pc = "done"
  /\ status = 200
  /\ Trigger
  /\ ~HasUrl(request.questions.text)
  /\ fetches = << >>

\* The indices from lo to hi at which Test holds, in increasing order.
IndicesWhere(lo, hi, Test(_)) == SelectSeq([i \in 1..(hi - lo + 1) |-> lo + i - 1], Test)

\* The lines of a text: its pieces between newlines (the text ends with a newline or is empty).
Lines(text) ==
  LET ends == IndicesWhere(1, Len(text), LAMBDA i : text[i] = "\n")
  IN [k \in 1..Len(ends) |->
        SubSeq(text, IF k = 1 THEN 1 ELSE ends[k - 1] + 1, ends[k] - 1)]

\* The page's first table of class wikitable is t.
IsQualifying(page, t) ==
  \E i \in 1..Len(page) :
    /\ "wikitable" \in page[i].classes
    /\ page[i].rows = t
    /\ \A j \in 1..(i - 1) : "wikitable" \notin page[j].classes

\* The indices of the rows after the first that have a cell, in the table's order.
FilledRows(t) == IndicesWhere(2, Len(t), LAMBDA i : t[i] # << >>)

\* A row as a line: its cells' trimmed texts, comma-joined.
LineOf(row) == Join([c \in 1..Len(row) |-> Strip(row[c])], ",")

\* The scraped block holds the table t: a title line, the headers' line, and one line for
\* each of the first RowCap filled rows, in the table's order.
BlockHolds(block, t) ==
  LET lines == Lines(block)
      filled == FilledRows(t)
      n == Min(RowCap, Len(filled))
  IN /\ block # << >>
     /\ Len(lines) = n + 2
     /\ lines[1] = <<"Scraped Data from ">> \o fetches[1] \o <<":">>
     /\ lines[2] = LineOf(t[1])
     /\ \A k \in 1..n : lines[k + 2] = LineOf(t[filled[k]])

\* A fetched page was parsed.
PageParsed == web.kind = "ok"

\* C10 as claimed: for a page with a qualifying table the scraped block holds the headers
\* and the filled rows, cut at RowCap; for a page without one, scraped data is empty.
C10_Original ==
  PageParsed =>
    /\ \A i \in 1..Len(web.page) :
         (IsQualifying(web.page, web.page[i].rows) /\ web.page[i].rows # << >>) =>
           BlockHolds(scraped_data, web.page[i].rows)
    /\ (\A i \in 1..Len(web.page) : "wikitable" \notin web.page[i].classes) =>
         scraped_data = << >>
    /\ ErrorIsOfLaterStep

\* The table has a first row with a cell and a later row with a cell.
HasHeaderAndRow(t) == t # << >> /\ t[1] # << >> /\ FilledRows(t) # << >>

\* C10 as amended: the same for a qualifying table whose first row has a cell and that has
\* a filled row after it; for any other qualifying table, as for a page without one,
\* scraped data is empty; no case raises an error.
C10_TableBlock ==
  PageParsed =>
    /\ \A i \in 1..Len(web.page) :
         IsQualifying(web.page, web.page[i].rows) =>
           IF HasHeaderAndRow(web.page[i].rows)
             THEN /\ BlockHolds(scraped_data, web.page[i].rows)
                  /\ Len(Lines(scraped_data)) <= RowCap + 2
             ELSE scraped_data = << >>
    /\ (\A i \in 1..Len(web.page) : "wikitable" \notin web.page[i].classes) =>
         scraped_data = << >>
    /\ ErrorIsOfLaterStep

\* C10's case: a table with more filled rows than the cap, cut to the cap in the block.
C10_Witness ==
  /\ PageParsed
  /\ \E i \in 1..Len(web.page) :
       /\ IsQualifying(web.page, web.page[i].rows)
       /\ Len(FilledRows(web.page[i].rows)) > RowCap
  /\ Len(Lines(scraped_data)) = RowCap + 2

====
